---------------------------- MODULE Spec2Model ----------------------------
(***************************************************************************)
(* Model of the keyword crawler of src/main.py: the Miner's interval queue *)
(* and its main loop (Miner.__call__), the date helpers it splits          *)
(* intervals with, the resumable lower bound read from the store, and the  *)
(* retry policy GitHubRetry.get_retry_after.                               *)
(*                                                                         *)
(* A datetime is a record [sec, us]: whole seconds counted from            *)
(* 2022-12-01T00:00:00Z (the default lower date) and a microsecond         *)
(* component in 0..999999.  A timedelta is Python's normalised triple      *)
(* [days, seconds, microseconds].                                          *)
(***************************************************************************)
EXTENDS Integers, Sequences, FiniteSets, Bags, TLC

VARIABLES
    store,      \* self._collection: a bag of stored documents
    queue,      \* self._queue: a deque of Intervals, popped from the right
    pc,         \* position of the run: "loop", "done" or "failed"
    history,    \* one entry per search issued: the total that decided, what was stored
    last,       \* what the most recent loop iteration observed and did
    call,       \* one outbound API call as seen by the retry policy
    stamp       \* one datetime passing through the round_datetime decorator

vars == <<store, queue, pc, history, last, call, stamp>>

-----------------------------------------------------------------------------
(* Bounds of the model                                                     *)

\* Widest seed interval, in seconds, explored second by second.
MaxWidth == 3

\* Largest distance, in seconds, between the clock and a rate-limit reset.
MaxResetDelta == 6

-----------------------------------------------------------------------------
(* Program constants                                                       *)

MAX_PAGE_SIZE == 100

MAX_RESULT_COUNT == MAX_PAGE_SIZE * 10

\* datetime.timedelta keeps 0 <= seconds < 86400 and carries the rest in days.
SecondsPerDay == 86400

MicrosPerSecond == 1000000

HalfSecondMicros == 500000

FORBIDDEN == 403

-----------------------------------------------------------------------------
(* datetime and timedelta arithmetic                                       *)

Datetime(s, u) == [sec |-> s, us |-> u]

\* a <= b for datetimes
DtLeq(a, b) == a.sec < b.sec \/ (a.sec = b.sec /\ a.us <= b.us)

\* upper - lower as Python normalises it: 0 <= seconds < 86400,
\* 0 <= microseconds < 1000000, the sign carried by days.
TimedeltaBetween(upper, lower) ==
    LET usRaw  == upper.us - lower.us
        borrow == IF usRaw < 0 THEN 1 ELSE 0
        secRaw == upper.sec - lower.sec - borrow
    IN  [days         |-> (secRaw - (secRaw % SecondsPerDay)) \div SecondsPerDay,
         seconds      |-> secRaw % SecondsPerDay,
         microseconds |-> usRaw + borrow * MicrosPerSecond]

\* dt + timedelta(seconds=1)
PlusOneSecond(dt) == Datetime(dt.sec + 1, dt.us)

\* Variant: exactly half a second is rounded down.
RoundDatetimeAboveHalf(dt) ==
    LET bumped == IF dt.us > HalfSecondMicros THEN PlusOneSecond(dt) ELSE dt
    IN  Datetime(bumped.sec, 0)

\* The round_datetime decorator applied to a returned datetime.
RoundDatetime(dt) ==
    LET bumped == IF dt.us >= HalfSecondMicros THEN PlusOneSecond(dt) ELSE dt
    IN  Datetime(bumped.sec, 0)

\* strftime(TIMESTAMP_FORMAT): a timestamp string is the record [text],
\* the whole second it spells; the format has no sub-second field, so the
\* microsecond component is dropped.
Strftime(dt) == [text |-> dt.sec]

\* dateutil's parse of a string in TIMESTAMP_FORMAT.
ParseDate(str) == Datetime(str.text, 0)

-----------------------------------------------------------------------------
(* Intervals and the median date                                           *)

\* Interval.between(lower, upper)
Between(lower, upper) == [lower_bound |-> lower, upper_bound |-> upper]

Raised == [raised |-> TRUE]

Returned(value) == [raised |-> FALSE, value |-> value]

\* datetime.fromtimestamp((lower_ts + upper_ts) / 2, tz=utc)
MedianTimestamp(lower, upper) ==
    LET sumSec  == lower.sec + upper.sec
        restUs  == (sumSec % 2) * MicrosPerSecond + lower.us + upper.us
        halfSec == (sumSec - (sumSec % 2)) \div 2
        halfUs  == restUs \div 2
    IN  Datetime(halfSec + (halfUs \div MicrosPerSecond), halfUs % MicrosPerSecond)

\* Variant: the guard compares with < instead of <=.
MedianDateRawStrictGuard(lower, upper) ==
    LET delta == TimedeltaBetween(upper, lower)
    IN  IF delta.seconds < 1
        THEN Raised
        ELSE Returned(MedianTimestamp(lower, upper))

\* Variant: the guard is missing.
MedianDateRawUnguarded(lower, upper) == Returned(MedianTimestamp(lower, upper))

\* The body of Miner._median_date, before the decorator rounds its result.
MedianDateRaw(lower, upper) ==
    LET delta == TimedeltaBetween(upper, lower)
    IN  IF delta.seconds <= 1
        THEN Raised
        ELSE Returned(MedianTimestamp(lower, upper))

\* Miner._median_date as called: round_datetime around the body; the
\* exception of the body passes through the decorator.
MedianDate(lower, upper) ==
    LET r == MedianDateRaw(lower, upper)
    IN  IF r.raised THEN Raised ELSE Returned(RoundDatetime(r.value))

-----------------------------------------------------------------------------
(* The store and the resumable lower bound                                 *)

\* A stored document, reduced to the timestamp field the target selects
\* ('commit.committer.date' or 'created_at'), a string.
Document(dateStr) == [date |-> dateStr]

\* Variant: the sort is ascending.
FindEarliest(collection) ==
    LET docs == BagToSet(collection)
    IN  IF docs = {}
        THEN << >>
        ELSE << CHOOSE d \in docs : \A e \in docs : d.date.text <= e.date.text >>

\* collection.find(filter={}, sort=[(path, DESC)], limit=1): a cursor over
\* at most one document, the one with the greatest timestamp string.
FindLatest(collection) ==
    LET docs == BagToSet(collection)
    IN  IF docs = {}
        THEN << >>
        ELSE << CHOOSE d \in docs : \A e \in docs : e.date.text <= d.date.text >>

\* next(cursor, default)
NextOr(cursor, default) == IF Len(cursor) = 0 THEN default ELSE Head(cursor)

\* Miner._lower_date_default: 2022-12-01T00:00:00Z, through round_datetime.
LowerDateDefault == RoundDatetime(Datetime(0, 0))

\* Miner._upper_date_default: the clock, through round_datetime.
UpperDateDefault(now) == RoundDatetime(now)

\* Miner._lower_date: the latest stored timestamp, or the default when the
\* store holds nothing, parsed and rounded.
LowerDate(collection) ==
    LET lower_date_default_doc == Document(Strftime(LowerDateDefault))
        lower_date_doc == NextOr(FindLatest(collection), lower_date_default_doc)
    IN  RoundDatetime(ParseDate(lower_date_doc.date))

\* Miner._init_queue: one interval from the lower date to the clock.
InitQueue(collection, now) ==
    << Between(LowerDate(collection), UpperDateDefault(now)) >>

-----------------------------------------------------------------------------
(* Search results and their conversion                                     *)

\* Totals the search API reports in the model: none, a few, exactly the
\* cap, more than the cap.
Totals == {0, 2, 3, MAX_RESULT_COUNT, MAX_RESULT_COUNT + MAX_PAGE_SIZE * 5}

\* How the per-record data fetches of one result set turn out.
FetchPatterns == {"ok", "first_gone", "all_gone", "error"}

Min(a, b) == IF a <= b THEN a ELSE b

Max(a, b) == IF a >= b THEN a ELSE b

\* interval_str = f'{lower_str}..{upper_str}': both bounds formatted and
\* joined into the range the query names.
IntervalStr(interval) ==
    [lower_str |-> Strftime(interval.lower_bound),
     upper_str |-> Strftime(interval.upper_bound)]

\* The qualifier committer-date:lower..upper (created:lower..upper) of the
\* query: the search matches the records dated from lower_str to upper_str,
\* both ends included.
Matches(date, interval_str) ==
    /\ interval_str.lower_str.text <= date.text
    /\ date.text <= interval_str.upper_str.text

\* A run of count consecutive items of a result set that carry the same
\* document and whose raw_data turns out the same way: "ok" (returned),
\* "gone" (UnknownObjectException) or "error" (any other exception).
Items(doc, fetch, count) == [doc |-> doc, fetch |-> fetch, count |-> count]

\* The result set of a search, as iterating it yields it: at most
\* MAX_RESULT_COUNT items in ascending date order (sort, order='asc'), the
\* first dated at the earliest second the query matches and the others at
\* the latest.
ResultSet(interval, total, pattern) ==
    LET interval_str == IntervalStr(interval)
        count      == Min(total, MAX_RESULT_COUNT)
        earliest   == Document(interval_str.lower_str)
        latest     == Document(interval_str.upper_str)
        fetchFirst == IF pattern \in {"first_gone", "all_gone"}
                      THEN "gone" ELSE "ok"
        fetchRest  == CASE pattern = "all_gone" -> "gone"
                        [] pattern = "error"    -> "error"
                        [] OTHER                -> "ok"
    IN  CASE count = 0 -> << >>
          [] count = 1 -> << Items(earliest, fetchFirst, 1) >>
          [] OTHER     -> << Items(earliest, fetchFirst, 1),
                             Items(latest, fetchRest, count - 1) >>

\* Variant: any first reading at or above the cap triggers the page fetch.
PageFetchesFromCap(first) == IF first >= MAX_RESULT_COUNT THEN 1 ELSE 0

\* results.totalCount as read on line 235: when the first reading equals
\* MAX_RESULT_COUNT the first page is fetched (results[0]) and the total is
\* read again; otherwise the first reading stands.
PageFetches(first) == IF first = MAX_RESULT_COUNT THEN 1 ELSE 0

TotalCount(first, second) == IF PageFetches(first) = 1 THEN second ELSE first

\* The readings of results.totalCount an iteration makes, in order.
Readings(first, second) ==
    IF PageFetches(first) = 1 THEN << first, second >> ELSE << first >>

\* Variant: the cap itself counts as over the cap.
OverCapInclusive(total) == total >= MAX_RESULT_COUNT

\* total > self.MAX_RESULT_COUNT
OverCap(total) == total > MAX_RESULT_COUNT

\* Documents of a list, count of them alike.
Documents(doc, count) == [doc |-> doc, count |-> count]

RECURSIVE ConvertFromSkippingRest(_, _)
\* Variant: the first UnknownObjectException ends the loop, and what was
\* converted before it is returned.
ConvertFromSkippingRest(results, converted) ==
    IF results = << >>
    THEN Returned(converted)
    ELSE LET result == Head(results)
         IN  CASE result.fetch = "ok" ->
                    ConvertFromSkippingRest(Tail(results),
                        Append(converted, Documents(result.doc, result.count)))
               [] result.fetch = "gone" -> Returned(converted)
               [] OTHER -> Raised

RECURSIVE ConvertFrom(_, _)
\* The loop of Miner._convert from some item on: raw_data of an item is
\* appended; an item that raises UnknownObjectException is logged and left
\* out; any other exception leaves the loop and the method.
ConvertFrom(results, converted) ==
    IF results = << >>
    THEN Returned(converted)
    ELSE LET result == Head(results)
         IN  CASE result.fetch = "ok" ->
                    ConvertFrom(Tail(results),
                        Append(converted, Documents(result.doc, result.count)))
               [] result.fetch = "gone" -> ConvertFrom(Tail(results), converted)
               [] OTHER -> Raised

\* Miner._convert: converted = [], then the loop over the results.
Convert(results) == ConvertFrom(results, << >>)

RECURSIVE BagOf(_)
\* The documents of a list as a bag.
BagOf(documents) ==
    IF documents = << >>
    THEN EmptyBag
    ELSE BagOf(Tail(documents))
            (+) [d \in {Head(documents).doc} |-> Head(documents).count]

\* len(documents)
Size(documents) == BagCardinality(BagOf(documents))

\* Variant: a document equal to a stored one is not inserted again.
InsertManyUnlessStored(collection, docs) ==
    IF docs = << >>
    THEN Raised
    ELSE Returned(collection (+) SetToBag(
            {d \in BagToSet(BagOf(docs)) : ~BagIn(d, collection)}))

\* collection.insert_many(documents): an empty list is refused with an
\* exception, anything else is added as it is.
InsertMany(collection, docs) ==
    IF docs = << >> THEN Raised ELSE Returned(collection (+) BagOf(docs))

-----------------------------------------------------------------------------
(* The run: construction                                                   *)

\* Stores a run can start over: empty, or holding documents of earlier
\* runs (one at the default lower date, several at one later second).
InitialStores ==
    { EmptyBag,
      SetToBag({Document(Strftime(Datetime(0, 0)))}),
      SetToBag({Document(Strftime(Datetime(0, 0))), Document(Strftime(Datetime(2, 0)))}) }

\* Microsecond components of the clock at construction.
ClockMicros == {0, HalfSecondMicros - 1, HalfSecondMicros}

\* How far the clock at construction is past the lower date: up to
\* MaxWidth seconds, a whole day, and two days and two seconds.
ClockOffsets ==
    {Datetime(w, u) : w \in 0..(MaxWidth - 1), u \in ClockMicros}
        \cup {Datetime(MaxWidth, 0)}
        \cup {Datetime(SecondsPerDay, u) : u \in ClockMicros}
        \cup {Datetime(2 * SecondsPerDay + 2, 0)}

\* No loop iteration has run yet.
NoIteration ==
    [outcome |-> "none", interval |-> Between(Datetime(0, 0), Datetime(0, 0)),
     before |-> << >>, readings |-> << >>, fetches |-> 0, total |-> 0,
     narrowed |-> FALSE, converted |-> 0, storeCalls |-> 0,
     results |-> << >>, raw_results |-> << >>]

\* No API call is in flight.
NoCall == [state |-> "idle"]

\* No datetime is being followed through the decorator.
NoStamp == [rounds |-> 0]

\* More iterations than any run of the model needs: a seed of w seconds
\* is split into at most 2w - 1 intervals.
MaxSteps == 2 * MaxWidth + 3

Init ==
    /\ store \in InitialStores
    /\ \E offset \in ClockOffsets :
          LET lower == LowerDate(store)
              now   == Datetime(lower.sec + offset.sec, offset.us)
          IN  queue = InitQueue(store, now)
    /\ pc = "loop"
    /\ history = << >>
    /\ last = NoIteration
    /\ call = NoCall
    /\ stamp = NoStamp

-----------------------------------------------------------------------------
(* The run: Miner.__call__                                                 *)

\* deque.pop(): the rightmost element leaves the queue.
Popped(q) == q[Len(q)]

\* Variant: the rightmost element is read but stays in the queue.
AfterPeek(q) == q

AfterPop(q) == SubSeq(q, 1, Len(q) - 1)

\* Variant: the interval itself is appended again in place of its lower half.
PushedWholeAgain(q, lower, median, upper) ==
    Append(Append(q, Between(median, upper)), Between(lower, upper))

\* Variant: only the lower half is appended.
PushedLowerOnly(q, lower, median, upper) == Append(q, Between(lower, median))

\* Variant: the lower half is appended first, the upper half second.
PushedLowerFirst(q, lower, median, upper) ==
    Append(Append(q, Between(lower, median)), Between(median, upper))

\* Variant: the upper half starts one second after the median.
PushedWithGap(q, lower, median, upper) ==
    Append(Append(q, Between(PlusOneSecond(median), upper)), Between(lower, median))

\* The two appends of a split: the upper half, then the lower half.
Pushed(q, lower, median, upper) ==
    Append(Append(q, Between(median, upper)), Between(lower, median))

\* The loop is about to run one more iteration.
Iterating == pc = "loop" /\ Len(queue) > 0 /\ Len(history) < MaxSteps

Observed(outcome, first, second, narrowed, converted, storeCalls) ==
    [outcome |-> outcome, interval |-> Popped(queue), before |-> queue,
     readings |-> Readings(first, second), fetches |-> PageFetches(first),
     total |-> TotalCount(first, second),
     narrowed |-> narrowed, converted |-> converted, storeCalls |-> storeCalls,
     results |-> << >>, raw_results |-> << >>]

\* What the loop has done with an interval, for the record of the run.
Examined(outcome, total, pattern, batches) ==
    [outcome |-> outcome, interval |-> Popped(queue), total |-> total,
     pattern |-> pattern, batches |-> batches]

\* The search call raises (retries exhausted): the run ends with the
\* interval already popped.
SearchRaises ==
    /\ Iterating
    /\ queue' = AfterPop(queue)
    /\ pc' = "failed"
    /\ last' = [NoIteration EXCEPT !.outcome = "search_error",
                                   !.interval = Popped(queue), !.before = queue]
    /\ UNCHANGED <<store, history, call, stamp>>

\* total == 0: the interval is dropped.
Skip(first, second) ==
    /\ Iterating
    /\ TotalCount(first, second) = 0
    /\ queue' = AfterPop(queue)
    /\ history' = Append(history, Examined("skip", 0, "none", << >>))
    /\ last' = Observed("skip", first, second, FALSE, 0, 0)
    /\ UNCHANGED <<store, pc, call, stamp>>

\* total > MAX_RESULT_COUNT and the median date is found: both halves are
\* appended, the upper one first.
Split(first, second) ==
    LET interval == Popped(queue)
        lower    == interval.lower_bound
        upper    == interval.upper_bound
        total    == TotalCount(first, second)
        median   == MedianDate(lower, upper)
    IN  /\ Iterating
        /\ OverCap(total)
        /\ ~median.raised
        /\ queue' = Pushed(AfterPop(queue), lower, median.value, upper)
        /\ history' = Append(history, Examined("split", total, "none", << >>))
        /\ last' = Observed("split", first, second, TRUE, 0, 0)
        /\ UNCHANGED <<store, pc, call, stamp>>

\* The iteration reaches line 249: the total is within the cap, or it is
\* above it and the median date raised TimeDifferenceTooSmallException.
ReachesConvert(first, second) ==
    LET interval == Popped(queue)
        total    == TotalCount(first, second)
    IN  /\ Iterating
        /\ total # 0
        /\ OverCap(total) =>
              MedianDate(interval.lower_bound, interval.upper_bound).raised

\* Lines 249-251: the results are converted and stored.
Mine(first, second, pattern) ==
    LET interval  == Popped(queue)
        total     == TotalCount(first, second)
        results   == ResultSet(interval, total, pattern)
        converted == Convert(results)
        stored    == InsertMany(store, converted.value)
    IN  /\ ReachesConvert(first, second)
        /\ ~converted.raised
        /\ ~stored.raised
        /\ queue' = AfterPop(queue)
        /\ store' = stored.value
        /\ history' = Append(history, Examined("mine", total, pattern,
                                                << Size(converted.value) >>))
        /\ last' = [Observed("mine", first, second, OverCap(total),
                             Size(converted.value), 1)
                        EXCEPT !.results = results,
                               !.raw_results = converted.value]
        /\ UNCHANGED <<pc, call, stamp>>

\* Line 249 raises: an item's raw_data fails with something other than
\* UnknownObjectException; nothing is stored and the run ends.
ConvertRaises(first, second, pattern) ==
    LET interval  == Popped(queue)
        total     == TotalCount(first, second)
        results   == ResultSet(interval, total, pattern)
        converted == Convert(results)
    IN  /\ ReachesConvert(first, second)
        /\ converted.raised
        /\ queue' = AfterPop(queue)
        /\ pc' = "failed"
        /\ history' = Append(history, Examined("convert_error", total, pattern,
                                                << >>))
        /\ last' = [Observed("convert_error", first, second,
                             OverCap(total), 0, 0)
                        EXCEPT !.results = results]
        /\ UNCHANGED <<store, call, stamp>>

\* Line 250 raises: insert_many refuses the batch; the run ends.
StoreRaises(first, second, pattern) ==
    LET interval  == Popped(queue)
        total     == TotalCount(first, second)
        results   == ResultSet(interval, total, pattern)
        converted == Convert(results)
    IN  /\ ReachesConvert(first, second)
        /\ ~converted.raised
        /\ InsertMany(store, converted.value).raised
        /\ queue' = AfterPop(queue)
        /\ pc' = "failed"
        /\ history' = Append(history, Examined("store_error", total, pattern,
                                                << Size(converted.value) >>))
        /\ last' = [Observed("store_error", first, second,
                             OverCap(total), Size(converted.value), 1)
                        EXCEPT !.results = results,
                               !.raw_results = converted.value]
        /\ UNCHANGED <<store, call, stamp>>

\* The queue is empty: the loop ends and 'Done!' is logged.
Finish ==
    /\ pc = "loop"
    /\ Len(queue) = 0
    /\ pc' = "done"
    /\ UNCHANGED <<store, queue, history, last, call, stamp>>

Next ==
    \/ \E first \in Totals, second \in Totals : Skip(first, second)
    \/ \E first \in Totals, second \in Totals : Split(first, second)
    \/ \E first \in Totals, second \in Totals, pattern \in FetchPatterns :
          Mine(first, second, pattern)
    \/ \E first \in Totals, second \in Totals, pattern \in FetchPatterns :
          ConvertRaises(first, second, pattern)
    \/ \E first \in Totals, second \in Totals, pattern \in FetchPatterns :
          StoreRaises(first, second, pattern)
    \/ SearchRaises
    \/ Finish

Spec == Init /\ [][Next]_vars

\* The loop is sequential and every call returns or raises, so a step that
\* can be taken is taken.
FairSpec == Spec /\ WF_vars(Next)

-----------------------------------------------------------------------------
(* The retry policy: GitHubRetry                                           *)

\* status_forcelist of GitHubRetry.__init__: the statuses that are retried.
StatusForcelist == {FORBIDDEN, 429, 500, 501, 502, 503, 504}

\* Retries a call is given before it fails for good.
RetryTotal == 10

\* An optional value is a sequence of length at most one.
Absent == << >>

Present(v) == << v >>

\* timedelta.total_seconds(), counted in microseconds.
TotalMicros(delta) ==
    (delta.days * SecondsPerDay + delta.seconds) * MicrosPerSecond
        + delta.microseconds

\* Retry.get_retry_after of the transport: the Retry-After header in
\* seconds, or nothing when the response carries none.
DefaultGetRetryAfter(response) ==
    IF response.retry_after = Absent
    THEN Returned(Absent)
    ELSE Returned(Present(Max(response.retry_after[1], 0) * MicrosPerSecond))

\* Variant: the extra second is not added.
GetRetryAfterNoMargin(response, now) ==
    IF response.status = FORBIDDEN
    THEN IF response.reset = Absent
         THEN Raised
         ELSE LET reset_time == Datetime(response.reset[1], 0)
                  delta      == TimedeltaBetween(reset_time, now)
              IN  Returned(Present(Max(TotalMicros(delta), 0)))
    ELSE Returned(Absent)

\* GitHubRetry.get_retry_after, in microseconds.  On 403 the reset header
\* is looked up (a missing header raises KeyError) and the time until the
\* reset plus one second, at least 0, is returned.  On any other status the
\* transport's method is called and its result dropped: nothing is returned.
GetRetryAfter(response, now) ==
    IF response.status = FORBIDDEN
    THEN IF response.reset = Absent
         THEN Raised
         ELSE LET reset_time == Datetime(response.reset[1], 0)
                  delta      == TimedeltaBetween(reset_time, now)
              IN  Returned(Present(Max(TotalMicros(delta) + MicrosPerSecond, 0)))
    ELSE LET default == DefaultGetRetryAfter(response)
         IN  Returned(Absent)

\* Responses the API gives to a call that is retried.
Responses ==
    [status      : StatusForcelist,
     reset       : {Absent} \cup {Present(t) : t \in 0..(2 * MaxResetDelta)},
     retry_after : {Absent, Present(0), Present(30)}]

\* The clock when a response arrives.
Clocks == {Datetime(MaxResetDelta, u) : u \in ClockMicros}

\* The query of the interval on top of the queue, as the search sends it.
RequestOf(q) == IntervalStr(Popped(q))

Attempt(request, attempts) ==
    [state |-> "attempting", request |-> request, attempts |-> attempts]

RetryInit ==
    /\ store = EmptyBag
    /\ queue = InitQueue(store, Datetime(MaxWidth, 0))
    /\ pc = "loop"
    /\ history = << >>
    /\ last = NoIteration
    /\ call = Attempt(RequestOf(queue), 0)
    /\ stamp = NoStamp

\* A retried status arrives with retries left: the policy computes how long
\* to sleep (its own retry-after when it gives one) and sleeps.
Respond(response, now) ==
    LET retry_after == GetRetryAfter(response, now)
    IN  /\ call.state = "attempting"
        /\ call.attempts < RetryTotal
        /\ ~retry_after.raised
        /\ call' = [state |-> "sleeping", request |-> call.request,
                    attempts |-> call.attempts + 1, response |-> response,
                    now |-> now, retry_after |-> retry_after.value]
        /\ UNCHANGED <<store, queue, pc, history, last, stamp>>

\* A 403 without the reset header: the header lookup raises.
RespondRaises(response, now) ==
    /\ call.state = "attempting"
    /\ call.attempts < RetryTotal
    /\ GetRetryAfter(response, now).raised
    /\ call' = [state |-> "raised", request |-> call.request,
                attempts |-> call.attempts, response |-> response]
    /\ UNCHANGED <<store, queue, pc, history, last, stamp>>

\* A retried status arrives with no retries left.
Exhaust(response) ==
    /\ call.state = "attempting"
    /\ call.attempts = RetryTotal
    /\ call' = [state |-> "exhausted", request |-> call.request,
                attempts |-> call.attempts, response |-> response]
    /\ UNCHANGED <<store, queue, pc, history, last, stamp>>

\* The sleep ends and the same request is sent again.
Wake ==
    /\ call.state = "sleeping"
    /\ call' = Attempt(call.request, call.attempts)
    /\ UNCHANGED <<store, queue, pc, history, last, stamp>>

\* The API answers the request.
Succeed ==
    /\ call.state = "attempting"
    /\ call' = [state |-> "succeeded", request |-> call.request,
                attempts |-> call.attempts]
    /\ UNCHANGED <<store, queue, pc, history, last, stamp>>

RetryNext ==
    \/ \E response \in Responses, now \in Clocks : Respond(response, now)
    \/ \E response \in Responses, now \in Clocks : RespondRaises(response, now)
    \/ \E response \in Responses : Exhaust(response)
    \/ Wake
    \/ Succeed

RetrySpec == RetryInit /\ [][RetryNext]_vars

-----------------------------------------------------------------------------
(* The decorator: round_datetime                                           *)

\* Microsecond components a decorated function returns: none, the least,
\* either side of half a second, the greatest.
ReturnedMicros ==
    {0, 1, HalfSecondMicros - 1, HalfSecondMicros, HalfSecondMicros + 1,
     MicrosPerSecond - 1}

\* Datetimes a decorated function returns.
ReturnedDatetimes ==
    {Datetime(t, u) : t \in 0..(2 * MaxWidth), u \in ReturnedMicros}

RoundInit ==
    /\ store = EmptyBag
    /\ queue = InitQueue(store, Datetime(MaxWidth, 0))
    /\ pc = "loop"
    /\ history = << >>
    /\ last = NoIteration
    /\ call = NoCall
    /\ \E dt \in ReturnedDatetimes :
          stamp = [rounds |-> 0, input |-> dt, output |-> dt]

\* The wrapper rounds what the function returned; a function decorated
\* that is handed its own result rounds it once more.
Round ==
    /\ stamp.rounds < 2
    /\ stamp' = [rounds |-> stamp.rounds + 1, input |-> stamp.input,
                 output |-> RoundDatetime(stamp.output)]
    /\ UNCHANGED <<store, queue, pc, history, last, call>>

RoundNext == Round

RoundSpec == RoundInit /\ [][RoundNext]_vars

-----------------------------------------------------------------------------
(* Properties of the main loop                                             *)

\* upper - lower > 1 second
WiderThanOneSecond(interval) ==
    LET l == interval.lower_bound
        u == interval.upper_bound
    IN  u.sec - l.sec > 1 \/ (u.sec - l.sec = 1 /\ u.us > l.us)

\* lower <= upper
WellOrdered(interval) == DtLeq(interval.lower_bound, interval.upper_bound)

\* The last iteration searched its interval and read a total.
Searched == last.outcome \in {"skip", "split", "mine", "convert_error", "store_error"}

\* This step is a loop iteration that searched its interval.
IterationStep == Len(history') = Len(history) + 1

\* The queue as a split of the last interval at m leaves it.
SplitAt(m) ==
    << Between(m, last.interval.upper_bound),
       Between(last.interval.lower_bound, m) >>

\* C1: every interval wider than one second, whatever its width, has a
\* median date, and an over-cap search of it leaves exactly the two halves
\* (median, upper) and (lower, median) where the interval was.
C1_EveryWideIntervalSplits ==
    /\ \A i \in DOMAIN queue :
          WiderThanOneSecond(queue[i]) =>
              ~MedianDate(queue[i].lower_bound, queue[i].upper_bound).raised
    /\ (Searched /\ last.total > MAX_RESULT_COUNT /\ WiderThanOneSecond(last.interval)) =>
          \E s \in (last.interval.lower_bound.sec)..(last.interval.upper_bound.sec) :
              queue = AfterPop(last.before) \o SplitAt(Datetime(s, 0))

\* C2: an interval of at most one second has no median date
\* (TimeDifferenceTooSmallException), and an over-cap search of it pushes
\* nothing onto the queue.
C2_NarrowIntervalRaises ==
    /\ \A i \in DOMAIN queue :
          (WellOrdered(queue[i]) /\ ~WiderThanOneSecond(queue[i])) =>
              MedianDate(queue[i].lower_bound, queue[i].upper_bound).raised
    /\ (Searched /\ last.total > MAX_RESULT_COUNT /\ ~WiderThanOneSecond(last.interval)) =>
          /\ last.outcome \in {"mine", "convert_error", "store_error"}
          /\ queue = SubSeq(last.before, 1, Len(last.before) - 1)

\* An over-cap search of an interval of exactly one second went on to
\* convert and store.
C2_Witness ==
    /\ last.outcome = "mine"
    /\ last.total > MAX_RESULT_COUNT
    /\ last.interval.upper_bound.sec - last.interval.lower_bound.sec = 1

\* The totals read by the searches of the run, in order.
TotalsRead == [i \in DOMAIN history |-> history[i].total]

\* The sizes of the batches handed to the store, in order.
BatchSizes ==
    LET wrote == SelectSeq(history, LAMBDA h : Len(h.batches) > 0)
    IN  [i \in DOMAIN wrote |-> wrote[i].batches[1]]

\* Every record of every result set of the run could be fetched.
AllFetched == \A i \in DOMAIN history : history[i].pattern \in {"none", "ok"}

\* C3 (each iteration): a total above the cap on an interval that can be
\* narrowed replaces the interval by exactly two sub-intervals, stores and
\* converts nothing, and the loop goes on.
C3_SplitStep ==
    (/\ IterationStep
     /\ last'.total > MAX_RESULT_COUNT
     /\ ~MedianDate(Popped(queue).lower_bound, Popped(queue).upper_bound).raised)
    => /\ Len(queue') = Len(queue) + 1
       /\ SubSeq(queue', 1, Len(queue) - 1) = SubSeq(queue, 1, Len(queue) - 1)
       /\ \E s \in (Popped(queue).lower_bound.sec)..(Popped(queue).upper_bound.sec) :
             /\ queue'[Len(queue)] = Between(Datetime(s, 0), Popped(queue).upper_bound)
             /\ queue'[Len(queue) + 1] = Between(Popped(queue).lower_bound, Datetime(s, 0))
       /\ store' = store
       /\ last'.converted = 0 /\ last'.storeCalls = 0
       /\ history'[Len(history')].batches = << >>
       /\ pc' = "loop"

\* C3 (the scenario): totals 1500, then 3 and 2, every record fetched, make
\* three searches and two batches of 3 and 2 documents.
C3_Scenario ==
    (pc = "done" /\ AllFetched
        /\ TotalsRead = << MAX_RESULT_COUNT + MAX_PAGE_SIZE * 5, 3, 2 >>)
    => (Len(history) = 3 /\ BatchSizes = << 3, 2 >>
        /\ BagCardinality(store) >= 5)

\* C3: a total above the cap on an interval that can be narrowed splits it
\* in two and stores nothing; totals 1500, 3, 2 give 3 searches and two
\* batches of sizes 3 and 2.
C3_OverCapSplitsInTwo == [][C3_SplitStep]_vars /\ []C3_Scenario

\* The scenario has run to completion.
C3_Witness ==
    /\ pc = "done"
    /\ AllFetched
    /\ TotalsRead = << MAX_RESULT_COUNT + MAX_PAGE_SIZE * 5, 3, 2 >>
    /\ BatchSizes = << 3, 2 >>

\* C4 as claimed: a total in (0, cap] makes exactly one store call and
\* leaves the queue one shorter, nothing pushed.
C4_LeafStep ==
    (IterationStep /\ last'.total > 0 /\ last'.total <= MAX_RESULT_COUNT)
    => /\ last'.storeCalls = 1
       /\ Len(history'[Len(history')].batches) = 1
       /\ queue' = SubSeq(queue, 1, Len(queue) - 1)

\* C4 as claimed, for every iteration of a run.
C4_ExactlyOneBatch == [][C4_LeafStep]_vars

\* C4 as amended: a total in (0, cap] pushes nothing and leaves the queue
\* one shorter; it makes exactly one store call, with the documents that
\* were converted, unless the conversion raises, and then it makes none and
\* the run ends.
C4_LeafStepUnlessConvertRaises ==
    (IterationStep /\ last'.total > 0 /\ last'.total <= MAX_RESULT_COUNT)
    => /\ queue' = SubSeq(queue, 1, Len(queue) - 1)
       /\ \/ /\ last'.outcome \in {"mine", "store_error"}
             /\ last'.storeCalls = 1
             /\ history'[Len(history')].batches = << last'.converted >>
             /\ BagCardinality(store') = BagCardinality(store)
                   + (IF last'.outcome = "mine" THEN last'.converted ELSE 0)
          \/ /\ last'.outcome = "convert_error"
             /\ history'[Len(history')].pattern = "error"
             /\ last'.storeCalls = 0
             /\ store' = store
             /\ pc' = "failed"

\* C4 as amended, for every iteration of a run: one store call for a total
\* in (0, cap] unless the conversion raises, and nothing pushed.
C4_OneBatchUnlessConvertRaises == [][C4_LeafStepUnlessConvertRaises]_vars

\* A total exactly at the cap was stored as one batch from a queue that
\* held other intervals.
C4_Witness ==
    /\ last.outcome = "mine"
    /\ last.total = MAX_RESULT_COUNT
    /\ last.storeCalls = 1
    /\ Len(last.before) > 1
    /\ queue = SubSeq(last.before, 1, Len(last.before) - 1)

\* C5: a total of 0 drops the interval: the store is untouched, nothing is
\* converted, and the queue is the previous queue without the interval.
C5_SkipStep ==
    (IterationStep /\ last'.total = 0)
    => /\ store' = store
       /\ queue' = SubSeq(queue, 1, Len(queue) - 1)
       /\ last'.converted = 0 /\ last'.storeCalls = 0
       /\ history'[Len(history')].batches = << >>
       /\ pc' = pc

\* C5, for every iteration of a run: a total of 0 changes nothing but the
\* queue, which loses the dequeued interval.
C5_ZeroTotalIsDiscarded == [][C5_SkipStep]_vars

\* A total of 0 was read for an interval that had others below it.
C5_Witness ==
    /\ last.outcome = "skip"
    /\ last.total = 0
    /\ Len(last.before) > 1
    /\ Len(queue) = Len(last.before) - 1

\* C6 (measure): the two intervals a split pushes are strictly narrower
\* than the interval they replace.
C6_HalvesAreNarrower ==
    (IterationStep /\ Len(queue') > Len(queue))
    => \A i \in (Len(queue))..(Len(queue')) :
          /\ WellOrdered(queue'[i])
          /\ queue'[i].upper_bound.sec - queue'[i].lower_bound.sec
                < Popped(queue).upper_bound.sec - Popped(queue).lower_bound.sec

\* The bound on iterations never stops a run.
C6_StepsSuffice == (pc = "loop" /\ Len(queue) > 0) => Len(history) < MaxSteps

\* The loop ran to an empty queue and reported completion.
Completed == pc = "done" /\ Len(queue) = 0

-----------------------------------------------------------------------------
(* Properties of the seed interval                                         *)

\* Construction has finished and the loop has not started.
AtStartup == pc = "loop" /\ history = << >> /\ last.outcome = "none"

\* 2022-12-01T00:00:00Z
FixedDefault == Datetime(0, 0)

\* t is the greatest timestamp among the stored documents.
IsLatestStored(t) ==
    /\ \E d \in BagToSet(store) : d.date.text = t.sec
    /\ \A d \in BagToSet(store) : d.date.text <= t.sec
    /\ t.us = 0

\* C7 as claimed: the seed's lower bound is the latest stored timestamp and
\* not the default when the store holds a record, and it is the default
\* exactly when the store is empty.
C7_DefaultExactlyWhenEmpty ==
    AtStartup =>
        /\ Len(queue) = 1
        /\ BagToSet(store) # {} => IsLatestStored(queue[1].lower_bound)
        /\ (queue[1].lower_bound = FixedDefault) <=> (BagToSet(store) = {})

\* C7 as amended: the seed's lower bound is the latest stored timestamp when
\* the store holds a record (so it equals the default only if that timestamp
\* is the default's instant), and it is the default when the store is empty.
C7_SeedLowerBound ==
    AtStartup =>
        /\ Len(queue) = 1
        /\ BagToSet(store) # {} => IsLatestStored(queue[1].lower_bound)
        /\ BagToSet(store) = {} => queue[1].lower_bound = FixedDefault
        /\ (queue[1].lower_bound = FixedDefault /\ BagToSet(store) # {})
              => \E d \in BagToSet(store) : d.date.text = FixedDefault.sec

\* A run starts over a store whose latest record is later than an older one
\* and later than the default.
C7_Witness ==
    /\ AtStartup
    /\ Cardinality(BagToSet(store)) > 1
    /\ queue[1].lower_bound # FixedDefault
    /\ IsLatestStored(queue[1].lower_bound)

-----------------------------------------------------------------------------
(* Properties of the retry policy                                          *)

\* The policy has just computed a sleep for a response.
Sleeping == call.state = "sleeping"

\* resetTime - now, in microseconds.
UntilReset == (call.response.reset[1] - call.now.sec) * MicrosPerSecond - call.now.us

\* C8 (the duration): on 403 with a reset header the sleep is
\* max(resetTime - now + 1, 0) seconds: never negative, 0 when the reset is
\* more than a second in the past, 6 when the reset is 5 seconds ahead.
C8_SleepDuration ==
    (Sleeping /\ call.response.status = FORBIDDEN /\ call.response.reset # Absent)
    => /\ Len(call.retry_after) = 1
       /\ call.retry_after[1] =
             (IF UntilReset + MicrosPerSecond >= 0 THEN UntilReset + MicrosPerSecond ELSE 0)
       /\ call.retry_after[1] >= 0
       /\ UntilReset < -MicrosPerSecond => call.retry_after[1] = 0
       /\ UntilReset = 5 * MicrosPerSecond => call.retry_after[1] = 6 * MicrosPerSecond

\* C8 (the retry): after the sleep the same request is attempted again.
C8_RetryStep ==
    /\ call'.request = call.request
    /\ Sleeping => (call'.state = "attempting" /\ call'.attempts = call.attempts)

\* C8: the rate-limit sleep lasts max(resetTime - now + 1, 0) seconds, and
\* the same request is then retried.
C8_RateLimitSleep == []C8_SleepDuration /\ [][C8_RetryStep]_vars

\* A 403 whose reset is 5 seconds ahead put the call to sleep for 6 seconds.
C8_Witness ==
    /\ Sleeping
    /\ call.response.status = FORBIDDEN
    /\ call.response.reset = Present(call.now.sec + 5)
    /\ call.now.us = 0
    /\ call.retry_after = Present(6 * MicrosPerSecond)

\* C9: for a status other than 403 the computation does not raise and gives
\* what the transport's own computation gives for that response.
C9_FallsThroughToDefault ==
    /\ call.state = "raised" => call.response.status = FORBIDDEN
    /\ (Sleeping /\ call.response.status # FORBIDDEN)
          => call.retry_after = DefaultGetRetryAfter(call.response).value

-----------------------------------------------------------------------------
(* Properties of the total that decides                                    *)

\* C10: the first page is fetched before the decision exactly when the first
\* total read equals the cap, the total that decides is the one read after
\* that fetch, and otherwise it is the first one.
C10_CapTotalIsReadAgain ==
    Searched =>
        /\ (last.fetches = 1) <=> (last.readings[1] = MAX_RESULT_COUNT)
        /\ last.fetches \in {0, 1}
        /\ Len(last.readings) = last.fetches + 1
        /\ last.total = last.readings[Len(last.readings)]
        /\ history[Len(history)].total = last.total
        /\ (last.outcome = "skip") <=> (last.total = 0)
        /\ last.outcome = "split" => last.total > MAX_RESULT_COUNT
        /\ (last.total > 0 /\ last.total <= MAX_RESULT_COUNT)
              => last.outcome \in {"mine", "convert_error", "store_error"}

\* A first total equal to the cap was read again as a total above the cap,
\* and the interval was split.
C10_Witness ==
    /\ last.outcome = "split"
    /\ last.readings = << MAX_RESULT_COUNT, MAX_RESULT_COUNT + MAX_PAGE_SIZE * 5 >>
    /\ last.fetches = 1

-----------------------------------------------------------------------------
(* Properties of the queue order                                           *)

\* C11 (the order of a split): right after a split the two halves are on
\* top of the queue, the lower half (lower, midpoint) above the upper half
\* (midpoint, upper).
C11_LowerHalfOnTop ==
    last.outcome = "split" =>
        /\ Len(queue) = Len(last.before) + 1
        /\ queue[Len(queue)].lower_bound = last.interval.lower_bound
        /\ queue[Len(queue)].upper_bound = queue[Len(queue) - 1].lower_bound
        /\ queue[Len(queue) - 1].upper_bound = last.interval.upper_bound

\* C11 (the dequeue): every iteration takes the interval appended last and
\* leaves the ones below it as they were, so the iteration after a split
\* queries the lower half of the interval just split.
C11_DequeueStep ==
    (last' # last) =>
        /\ last'.interval = queue[Len(queue)]
        /\ last'.before = queue
        /\ SubSeq(queue', 1, Len(queue) - 1) = SubSeq(queue, 1, Len(queue) - 1)
        /\ last.outcome = "split" =>
              /\ last'.interval.lower_bound = last.interval.lower_bound
              /\ last'.interval.upper_bound = queue[Len(queue) - 1].lower_bound
              /\ last'.interval.upper_bound.sec < last.interval.upper_bound.sec

\* C11: the queue is LIFO, a split pushes the upper half first and the
\* lower half second, and the interval queried next after a split is the
\* lower half of the interval just split.
C11_LifoLowerHalfNext == []C11_LowerHalfOnTop /\ [][C11_DequeueStep]_vars

\* The lower half of a split was queried and stored while the upper half
\* waited below it.
C11_Witness ==
    /\ last.outcome = "mine"
    /\ Len(history) = 2
    /\ history[1].total > MAX_RESULT_COUNT
    /\ Len(last.before) = 2
    /\ last.interval.upper_bound = last.before[1].lower_bound
    /\ queue = << last.before[1] >>

-----------------------------------------------------------------------------
(* Properties of the rounding                                              *)

\* C12: rounding is half-up to the second and idempotent: a microsecond
\* component of 500000 or more gives the next whole second, a smaller one
\* the current second, the result has microsecond 0, and rounding the result
\* again returns it unchanged.
C12_RoundsHalfUpOnce ==
    stamp.rounds >= 1 =>
        /\ stamp.output.us = 0
        /\ stamp.input.us >= 500000 => stamp.output.sec = stamp.input.sec + 1
        /\ stamp.input.us < 500000 => stamp.output.sec = stamp.input.sec
        /\ RoundDatetime(stamp.output) = stamp.output

\* A datetime exactly half a second past the second was rounded up, and
\* rounding it again left it there.
C12_Witness ==
    /\ stamp.rounds = 2
    /\ stamp.input.us = 500000
    /\ stamp.output = Datetime(stamp.input.sec + 1, 0)

-----------------------------------------------------------------------------
(* Properties of conversion and storage                                    *)

\* lower < upper, strictly
DtLess(a, b) == DtLeq(a, b) /\ a # b

\* The last iteration reached the conversion of its result set.
Converting == last.outcome \in {"mine", "convert_error", "store_error"}

\* The items of the last result set whose data could be fetched, in the
\* order the search returned them.
Fetched == SelectSeq(last.results, LAMBDA item : item.fetch = "ok")

\* C13 (not found): when no item fails otherwise, the converted list holds
\* the documents of exactly the items whose fetch did not fail with
\* not-found, in the order of the result set, and is what the store call
\* is given.
C13_NotFoundIsOmitted ==
    last.outcome \in {"mine", "store_error"} =>
        /\ \A i \in DOMAIN last.results : last.results[i].fetch \in {"ok", "gone"}
        /\ Len(last.raw_results) = Len(Fetched)
        /\ \A i \in DOMAIN Fetched :
              /\ last.raw_results[i].doc = Fetched[i].doc
              /\ last.raw_results[i].count = Fetched[i].count
        /\ last.storeCalls = 1

\* C13 (any other error): an iteration whose result set holds an item
\* that fails with another error ends the run in the conversion, without a
\* store call and with the store as it was.
C13_OtherErrorStep ==
    (last' # last /\ \E i \in DOMAIN last'.results : last'.results[i].fetch = "error")
    => /\ last'.outcome = "convert_error"
       /\ pc' = "failed"
       /\ last'.storeCalls = 0
       /\ store' = store

\* C13: a not-found item is omitted and the remaining items are converted
\* in order; any other item error propagates out of the conversion and no
\* store write happens for that interval.
C13_OmitsNotFoundOnly == []C13_NotFoundIsOmitted /\ [][C13_OtherErrorStep]_vars

\* The first item of a result set was not found, and the item after it
\* was converted and stored.
C13_Witness ==
    /\ last.outcome = "mine"
    /\ Len(last.results) = 2
    /\ last.results[1].fetch = "gone"
    /\ last.raw_results = << Documents(last.results[2].doc, last.results[2].count) >>
    /\ BagIn(last.results[2].doc, store)

\* The documents the run has handed to the store so far.
Inserted ==
    LET RECURSIVE Sum(_)
        Sum(sizes) == IF sizes = << >> THEN 0 ELSE Head(sizes) + Sum(Tail(sizes))
    IN  Sum([i \in DOMAIN history |->
                IF history[i].outcome = "mine" THEN history[i].batches[1] ELSE 0])

\* C14 (the seed): a run constructed over a store that holds records has a
\* seed interval whose lower bound is the latest stored timestamp, and its
\* query matches the records stored with that timestamp.
C14_SeedIncludesLatestStored ==
    (history = << >> /\ last = NoIteration /\ store # EmptyBag) =>
        \E d \in BagToSet(store) :
            /\ \A e \in BagToSet(store) : e.date.text <= d.date.text
            /\ queue[1].lower_bound = Datetime(d.date.text, 0)
            /\ Matches(d.date, IntervalStr(queue[1]))

\* C14 (the insert): a store write adds every document of the batch, as
\* many copies as the batch holds, whatever the store held before.
C14_InsertStep ==
    (last' # last /\ last'.outcome = "mine") =>
        \A d \in BagToSet(store') :
            CopiesIn(d, store') = CopiesIn(d, store) + CopiesIn(d, BagOf(last'.raw_results))

\* C14 (the duplicate): when the seed interval of a run over a store that
\* held records is ingested with every record fetched, the record stored
\* with the latest timestamp is in the store more than once.
C14_StoredTwice ==
    (/\ Len(history) >= 1
     /\ history[1].outcome = "mine"
     /\ history[1].pattern = "ok"
     /\ BagCardinality(store) > Inserted)
    => CopiesIn(Document(Strftime(history[1].interval.lower_bound)), store) >= 2

\* C14: no dedup, no upsert: the seed window of a run over a store that
\* holds records starts at the maximum stored timestamp, inclusive, every
\* returned record is inserted whether or not an identical one is stored,
\* and a record of the overlap ends up stored twice.
C14_NoDedupNoUpsert ==
    /\ []C14_SeedIncludesLatestStored
    /\ [][C14_InsertStep]_vars
    /\ []C14_StoredTwice

\* A run over a store that held one record dated two seconds after the
\* default has ingested its seed interval, and that record is stored twice.
C14_Witness ==
    /\ Len(history) = 1
    /\ last.outcome = "mine"
    /\ last.interval.lower_bound = Datetime(2, 0)
    /\ CopiesIn(Document(Strftime(Datetime(2, 0))), store) = 2

\* C15: an interval whose total exceeds the cap is converted and stored
\* directly only when upper - lower <= 1 second; a wider one is split.
C15_DirectOnlyWhenTooNarrow ==
    (Converting /\ last.total > MAX_RESULT_COUNT) => ~WiderThanOneSecond(last.interval)

\* C16: every query is scoped to [lower, upper): no record a search returns
\* for an interval with lower < upper carries the upper bound of the
\* interval, and after a split the records dated at the midpoint are matched
\* by the query of one half only.
C16_QueryIsHalfOpen ==
    /\ (Converting /\ DtLess(last.interval.lower_bound, last.interval.upper_bound)) =>
          \A i \in DOMAIN last.results :
              last.results[i].doc.date.text < Strftime(last.interval.upper_bound).text
    /\ last.outcome = "split" =>
          LET m == Strftime(queue[Len(queue)].upper_bound)
          IN  ~(/\ Matches(m, IntervalStr(queue[Len(queue)]))
                /\ Matches(m, IntervalStr(queue[Len(queue) - 1])))

-----------------------------------------------------------------------------
(* Properties of the intervals of a run                                    *)

\* The intervals the run has skipped or ingested, in the order it did.
Leaves ==
    LET left == SelectSeq(history, LAMBDA h : h.outcome \in {"skip", "mine"})
    IN  [i \in DOMAIN left |-> left[i].interval]

\* The intervals still in the queue, from the top down: the order in which
\* the loop would take them.
Pending == [i \in DOMAIN queue |-> queue[Len(queue) + 1 - i]]

\* The interval the queue was seeded with.
Seed ==
    CASE last = NoIteration -> queue[1]
      [] history = << >>    -> last.interval
      [] OTHER              -> history[1].interval

\* The interval a call was examining when it raised and ended the run.
InFlight == IF pc = "failed" THEN << last.interval >> ELSE << >>

\* The intervals, in this order, go from the lower bound of the seed to its
\* upper bound, each one starting where the one before it ends.
TilesSeed(intervals) ==
    /\ intervals # << >>
    /\ intervals[1].lower_bound = Seed.lower_bound
    /\ intervals[Len(intervals)].upper_bound = Seed.upper_bound
    /\ \A i \in 1..(Len(intervals) - 1) :
          intervals[i].upper_bound = intervals[i + 1].lower_bound

\* C17 as claimed: in every reachable state the skipped or ingested leaves
\* and the queued intervals tile the seed interval contiguously.
C17_LeavesAndQueueTile == TilesSeed(Leaves \o Pending)

\* C17 as amended: the leaves, the interval in flight when a call raised
\* and ended the run (if one did), and the queued intervals tile the seed
\* interval contiguously in every reachable state; at completion the queue
\* is empty, so the leaves alone do, and no timestamp of the seed interval
\* lies outside every leaf.
C17_LeavesInFlightAndQueueTile ==
    /\ TilesSeed(Leaves \o InFlight \o Pending)
    /\ pc # "failed" => TilesSeed(Leaves \o Pending)
    /\ pc = "done" => (queue = << >> /\ TilesSeed(Leaves))

\* A seed interval was split twice and the run completed over its three
\* leaves.
C17_Witness ==
    /\ pc = "done"
    /\ Len(Leaves) = 3
    /\ Leaves[1].upper_bound = Leaves[2].lower_bound
    /\ Leaves[3].upper_bound = Seed.upper_bound

\* C18: every queued interval starts at or after the end of every leaf
\* already skipped or ingested, the queue read from the top down and the
\* leaves in the order they were taken are ascending, so no stored timestamp
\* exceeds the lower bound of a pending interval and the lower bound a
\* restart derives from the store is at or before every pending interval.
C18_ResumeInvariant ==
    /\ \A i \in DOMAIN queue :
          \A k \in DOMAIN Leaves : DtLeq(Leaves[k].upper_bound, queue[i].lower_bound)
    /\ \A i \in 1..(Len(Pending) - 1) :
          DtLeq(Pending[i].upper_bound, Pending[i + 1].lower_bound)
    /\ \A k \in 1..(Len(Leaves) - 1) :
          DtLeq(Leaves[k].upper_bound, Leaves[k + 1].lower_bound)
    /\ \A i \in DOMAIN queue :
          /\ \A d \in BagToSet(store) : d.date.text <= Strftime(queue[i].lower_bound).text
          /\ DtLeq(LowerDate(store), queue[i].lower_bound)

\* The lower half of a split was ingested while the upper half is pending,
\* and a restart would begin exactly where the pending half begins.
C18_Witness ==
    /\ last.outcome = "mine"
    /\ Len(history) >= 2
    /\ Len(queue) = 1
    /\ last.interval.upper_bound = queue[1].lower_bound
    /\ LowerDate(store) = queue[1].lower_bound

\* C19 (the midpoint): a split of an interval with whole-second bounds
\* and lower <= upper pushes two halves around a midpoint strictly inside
\* the interval, each with lower <= upper and strictly narrower than it.
C19_SplitStep ==
    (/\ last' # last
     /\ last'.outcome = "split"
     /\ Popped(queue).lower_bound.us = 0
     /\ Popped(queue).upper_bound.us = 0
     /\ WellOrdered(Popped(queue)))
    => LET lower  == Popped(queue).lower_bound
           upper  == Popped(queue).upper_bound
           m      == queue'[Len(queue')].upper_bound
       IN  /\ MedianDate(lower, upper) = Returned(m)
           /\ DtLess(lower, m)
           /\ DtLess(m, upper)
           /\ queue'[Len(queue')] = Between(lower, m)
           /\ queue'[Len(queue') - 1] = Between(m, upper)
           /\ m.sec - lower.sec < upper.sec - lower.sec
           /\ upper.sec - m.sec < upper.sec - lower.sec

\* C19 (the queue): every interval in the queue has whole-second bounds
\* with lower <= upper, and where its midpoint can be computed the
\* midpoint is strictly inside it.
C19_QueueIsWellOrdered ==
    \A i \in DOMAIN queue :
        LET median == MedianDate(queue[i].lower_bound, queue[i].upper_bound)
        IN  /\ WellOrdered(queue[i])
            /\ queue[i].lower_bound.us = 0
            /\ queue[i].upper_bound.us = 0
            /\ ~median.raised =>
                  /\ DtLess(queue[i].lower_bound, median.value)
                  /\ DtLess(median.value, queue[i].upper_bound)

\* C19: a midpoint that can be computed lies strictly between the bounds,
\* so both halves of a split satisfy lower <= upper and are strictly
\* narrower than their parent, and every interval ever in the queue
\* satisfies lower <= upper.
C19_MidpointStrictlyInside == [][C19_SplitStep]_vars /\ []C19_QueueIsWellOrdered

\* An interval two seconds wide was split into two halves of one second.
C19_Witness ==
    /\ last.outcome = "split"
    /\ last.interval.upper_bound.sec - last.interval.lower_bound.sec = 2
    /\ queue[Len(queue)].upper_bound.sec = last.interval.lower_bound.sec + 1
    /\ queue[Len(queue) - 1].lower_bound.sec = last.interval.lower_bound.sec + 1

\* C20: every batch the store's bulk insert is called with holds at least
\* one record, also when every record fetch of the interval fails with
\* not-found.
C20_BatchIsNeverEmpty ==
    last.storeCalls = 1 => (last.converted >= 1 /\ last.raw_results # << >>)

=============================================================================
